---- MODULE Spec2Model ----
(***************************************************************************)
(* A model of bikeshare.py: the interactive driver main(), the loader      *)
(* load_data(), the four statistic functions and display_statistics().     *)
(*                                                                         *)
(* Python values are tagged records, so that None, NaN, numbers, text and  *)
(* mappings can be told apart.  Text is a sequence of one-character        *)
(* strings, so that lower(), title() and '+' are computed, not assumed.    *)
(* A DataFrame is a function from column name to the sequence of its       *)
(* cells.                                                                  *)
(***************************************************************************)
EXTENDS Integers, Sequences, FiniteSets, TLC

\* state      where main is: at the city prompt, at the continue prompt, or returned
\* prompt     the prompt the last line was typed at
\* lastInput  the last line typed, as typed
\* city       main's city, the lower-cased line typed at the city prompt
\* choice     main's choice, the lower-cased line typed at the continue prompt
\* df0        the table as load_data returned it (None when it returned none)
\* df         the table as it is now
\* stats      the four tuples display_statistics got when it last ran
\* calls      the calls made while handling the last line
\* out        the lines printed while handling the last line or call
\* lastCall   the statistic function called last on the table, and
\* ret        the tuple it returned
VARIABLES state, prompt, lastInput, city, choice, df0, df, stats, calls, out, lastCall, ret

vars == <<state, prompt, lastInput, city, choice, df0, df, stats, calls, out, lastCall, ret>>

\* Largest number of data rows of a dataset file.
MaxRows == 2

-----------------------------------------------------------------------------
(* Python values *)

None == [k |-> "None"]
NaN == [k |-> "nan"]
PyInt(v) == [k |-> "int", v |-> v]
\* A float, held in tenths: Float(19805) is 1980.5.
Float(t) == [k |-> "float", t |-> t]
\* The quotient num/den of a float division, kept exact.
Ratio(num, den) == [k |-> "ratio", num |-> num, den |-> den]
Str(s) == [k |-> "str", s |-> s]
Timestamp(y, m, d, h) == [k |-> "ts", year |-> y, month |-> m, day |-> d, hour |-> h]
\* The result of value_counts(): a mapping from value to count.
Series(m) == [k |-> "series", m |-> m]
\* A cell of a timestamp column that is not a date.
BadTime == Str(<<"?">>)

-----------------------------------------------------------------------------
(* Text *)

UpperCase == <<"A", "B", "C", "D", "E", "F", "G", "H", "I", "J", "K", "L", "M",
               "N", "O", "P", "Q", "R", "S", "T", "U", "V", "W", "X", "Y", "Z">>
LowerCase == <<"a", "b", "c", "d", "e", "f", "g", "h", "i", "j", "k", "l", "m",
               "n", "o", "p", "q", "r", "s", "t", "u", "v", "w", "x", "y", "z">>
Digits == <<"0", "1", "2", "3", "4", "5", "6", "7", "8", "9">>
\* The characters used, in code point order.
Alphabet == <<" ", "-", ".">> \o Digits \o <<"?">> \o UpperCase \o <<"_">> \o LowerCase

Index(seq, c) == CHOOSE i \in 1..Len(seq) : seq[i] = c
Range(seq) == {seq[i] : i \in 1..Len(seq)}
Has(seq, c) == c \in Range(seq)
Letters == Range(UpperCase) \cup Range(LowerCase)
DigitSet == Range(Digits)
\* The code point order, the value of a digit, and the two case mappings.
OrdOf == [c \in Range(Alphabet) |-> Index(Alphabet, c)]
DigitOf == [c \in DigitSet |-> Index(Digits, c) - 1]
ToLower == [c \in Range(UpperCase) |-> LowerCase[Index(UpperCase, c)]]
ToUpper == [c \in Range(LowerCase) |-> UpperCase[Index(LowerCase, c)]]
Ord(c) == OrdOf[c]

LowerChar(c) == IF c \in DOMAIN ToLower THEN ToLower[c] ELSE c
UpperChar(c) == IF c \in DOMAIN ToUpper THEN ToUpper[c] ELSE c
IsLetter(c) == c \in Letters

\* str.lower()
lower(s) == [i \in 1..Len(s) |-> LowerChar(s[i])]

\* str.title(): a letter that follows a non-letter is upper-cased, any other
\* letter is lower-cased.
title(s) ==
    [i \in 1..Len(s) |->
        IF i = 1 \/ ~IsLetter(s[i - 1]) THEN UpperChar(s[i]) ELSE LowerChar(s[i])]

\* s < t for text, by code point.
RECURSIVE StrLess(_, _)
StrLess(s, t) ==
    IF t = <<>> THEN FALSE
    ELSE IF s = <<>> THEN TRUE
    ELSE IF Head(s) = Head(t) THEN StrLess(Tail(s), Tail(t))
    ELSE Ord(Head(s)) < Ord(Head(t))

chicago == <<"c", "h", "i", "c", "a", "g", "o">>
new_york_city == <<"n", "e", "w", " ", "y", "o", "r", "k", " ", "c", "i", "t", "y">>
washington == <<"w", "a", "s", "h", "i", "n", "g", "t", "o", "n">>
yes == <<"y", "e", "s">>
no == <<"n", "o">>

\* CITY_DATA with the key of New York written with hyphens.
CITY_DATA_Hyphenated ==
    (chicago :> "chicago.csv")
        @@ (<<"n", "e", "w", "-", "y", "o", "r", "k", "-", "c", "i", "t", "y">> :> "new_york_city.csv")
        @@ (washington :> "washington.csv")

CITY_DATA ==
    (chicago :> "chicago.csv") @@ (new_york_city :> "new_york_city.csv")
        @@ (washington :> "washington.csv")

-----------------------------------------------------------------------------
(* Column operations of the table library, as the program uses them *)

\* The cells of a column that are not missing.
Present(col) == {col[i] : i \in DOMAIN col} \ {NaN}
Count(col, v) == Cardinality({i \in DOMAIN col : col[i] = v})

\* Series.mode(): the most frequent values, missing cells left out, in
\* ascending order; ModeFirst is mode()[0], and mode() is empty exactly
\* when Present(col) is.
ModeSet(col) == {v \in Present(col) : \A w \in Present(col) : Count(col, w) <= Count(col, v)}
\* a < b for two cells of one column: numbers by value, text by code point.
CellLess(a, b) ==
    IF a.k = "str" THEN StrLess(a.s, b.s)
    ELSE IF a.k = "float" THEN a.t < b.t
    ELSE a.v < b.v
ModeFirst(col) == CHOOSE v \in ModeSet(col) : \A w \in ModeSet(col) \ {v} : CellLess(v, w)

\* Series.value_counts(): the count of every value that is not missing.
value_counts(col) == Series([v \in Present(col) |-> Count(col, v)])

\* Series.min() and Series.max() of a float column, missing cells skipped:
\* NaN when nothing is left.
Min(col) ==
    IF Present(col) = {} THEN NaN
    ELSE CHOOSE v \in Present(col) : \A w \in Present(col) : v.t <= w.t
Max(col) ==
    IF Present(col) = {} THEN NaN
    ELSE CHOOSE v \in Present(col) : \A w \in Present(col) : v.t >= w.t

RECURSIVE SumFrom(_, _)
SumFrom(col, i) ==
    IF i > Len(col) THEN 0
    ELSE (IF col[i] = NaN THEN 0 ELSE col[i].v) + SumFrom(col, i + 1)
\* Series.sum() of an integer column, missing cells skipped.
Sum(col) == PyInt(SumFrom(col, 1))

RECURSIVE GCD(_, _)
GCD(a, b) == IF b = 0 THEN a ELSE GCD(b, a % b)
\* Series.mean(): the sum over the number of cells that are not missing, NaN
\* when there is none.
Mean(col) ==
    LET n == Cardinality({i \in DOMAIN col : col[i] # NaN})
        s == SumFrom(col, 1)
        g == GCD(IF s < 0 THEN -s ELSE s, n)
    IN IF n = 0 THEN NaN ELSE Ratio(s \div g, n \div g)

RECURSIVE DigitsVal(_)
DigitsVal(q) ==
    IF q = <<>> THEN 0
    ELSE DigitsVal(SubSeq(q, 1, Len(q) - 1)) * 10 + DigitOf[q[Len(q)]]
AllDigits(q) == \A i \in 1..Len(q) : q[i] \in DigitSet

\* The number a text cell spells, in tenths, or NaN when it spells none.
\* The texts read are unsigned decimals with at most one fractional digit.
ParseNumber(s) ==
    IF Has(s, ".")
    THEN LET d == Index(s, ".")
             ip == SubSeq(s, 1, d - 1)
             fp == SubSeq(s, d + 1, Len(s))
         IN IF ip # <<>> /\ AllDigits(ip) /\ AllDigits(fp) /\ Len(fp) <= 1
            THEN Float(DigitsVal(ip) * 10 + DigitsVal(fp))
            ELSE NaN
    ELSE IF s # <<>> /\ AllDigits(s) THEN Float(DigitsVal(s) * 10) ELSE NaN

\* to_numeric that parses no text.
to_numeric_NoParse(col) == [i \in DOMAIN col |-> IF col[i].k = "float" THEN col[i] ELSE NaN]

\* pd.to_numeric(col, errors='coerce'): numbers stay, text is parsed, and
\* what is no number becomes NaN.
to_numeric(col) ==
    [i \in DOMAIN col |->
        IF col[i].k = "float" THEN col[i]
        ELSE IF col[i].k = "str" THEN ParseNumber(col[i].s)
        ELSE NaN]

\* int(x) of a float: truncation towards zero.
int(x) == PyInt(IF x.t >= 0 THEN x.t \div 10 ELSE -((-x.t) \div 10))

\* The date a text cell spells ("YYYY-MM-DD HH"), or BadTime.
ParseTime(s) ==
    IF /\ Len(s) = 13
       /\ s[5] = "-" /\ s[8] = "-" /\ s[11] = " "
       /\ AllDigits(SubSeq(s, 1, 4)) /\ AllDigits(SubSeq(s, 6, 7))
       /\ AllDigits(SubSeq(s, 9, 10)) /\ AllDigits(SubSeq(s, 12, 13))
       /\ DigitsVal(SubSeq(s, 6, 7)) \in 1..12
       /\ DigitsVal(SubSeq(s, 9, 10)) \in 1..31
       /\ DigitsVal(SubSeq(s, 12, 13)) \in 0..23
    THEN Timestamp(DigitsVal(SubSeq(s, 1, 4)), DigitsVal(SubSeq(s, 6, 7)),
                   DigitsVal(SubSeq(s, 9, 10)), DigitsVal(SubSeq(s, 12, 13)))
    ELSE BadTime

\* pd.to_datetime(col) fails when a cell is no date; a missing cell stays
\* missing.
DatetimeFails(col) ==
    \E i \in DOMAIN col : col[i] # NaN /\ (col[i].k # "str" \/ ParseTime(col[i].s) = BadTime)
to_datetime(col) ==
    [i \in DOMAIN col |-> IF col[i] = NaN THEN NaN ELSE ParseTime(col[i].s)]

\* Series.dt.month, .dt.dayofweek (Monday is 0) and .dt.hour
MonthOffsets == <<0, 3, 2, 5, 0, 3, 5, 1, 4, 6, 2, 4>>
DayOfWeek(ts) ==
    LET y == IF ts.month < 3 THEN ts.year - 1 ELSE ts.year
        sunday0 == (y + (y \div 4) - (y \div 100) + (y \div 400)
                      + MonthOffsets[ts.month] + ts.day) % 7
    IN (sunday0 + 6) % 7
dt_month(col) == [i \in DOMAIN col |-> IF col[i] = NaN THEN NaN ELSE PyInt(col[i].month)]
dt_dayofweek(col) == [i \in DOMAIN col |-> IF col[i] = NaN THEN NaN ELSE PyInt(DayOfWeek(col[i]))]
dt_hour(col) == [i \in DOMAIN col |-> IF col[i] = NaN THEN NaN ELSE PyInt(col[i].hour)]

\* col + ' to ' + col2 on text columns: a missing cell on either side gives a
\* missing cell.
to_ == <<" ", "t", "o", " ">>
Concat(a, b) ==
    [i \in DOMAIN a |->
        IF a[i] = NaN \/ b[i] = NaN THEN NaN ELSE Str(a[i].s \o to_ \o b[i].s)]
\* '+' fails on a cell that is neither text nor missing.
ConcatFails(a, b) ==
    \E i \in DOMAIN a : (a[i] # NaN /\ a[i].k # "str") \/ (b[i] # NaN /\ b[i].k # "str")

\* df[name] = col
SetColumn(d, name, col) == [c \in DOMAIN d \cup {name} |-> IF c = name THEN col ELSE d[c]]

-----------------------------------------------------------------------------
(* What the program prints and calls *)

NoArg == [k |-> "noarg"]
\* The exception object a handler prints.
Exc == [k |-> "exception"]
\* One print(): the literal text and the value printed after it.
Line(label, val) == [label |-> label, val |-> val]
Call(fn, arg) == [fn |-> fn, arg |-> arg]
Path(name) == [k |-> "path", name |-> name]

-----------------------------------------------------------------------------
(* load_data *)

\* A dataset location with no file, and a file that cannot be read as a table.
NoFile == [k |-> "nofile"]
Unreadable == [k |-> "unreadable"]

\* load_data(c) when the dataset location of c holds content: the table
\* returned (or None), the lines printed and the reads made.
load_data(c, content) ==
    LET keyError == c \notin DOMAIN CITY_DATA
        notFound == ~keyError /\ content = NoFile
        failed ==
            \/ keyError
            \/ content = Unreadable
            \/ /\ content \notin {NoFile, Unreadable}
               /\ \/ "Start Time" \notin DOMAIN content
                  \/ DatetimeFails(content["Start Time"])
                  \/ "End Time" \notin DOMAIN content
                  \/ DatetimeFails(content["End Time"])
        reads == IF keyError THEN <<>> ELSE <<Call("read_csv", Path(CITY_DATA[c]))>>
    IN IF notFound
       THEN [df |-> None, calls |-> reads,
             out |-> <<Line("Error: File for {city} not found.", Str(title(c)))>>]
       ELSE IF failed
       THEN [df |-> None, calls |-> reads,
             out |-> <<Line("An error occurred while loading data for {city}: {e}", Str(title(c)))>>]
       ELSE [df |-> SetColumn(SetColumn(content, "Start Time", to_datetime(content["Start Time"])),
                              "End Time", to_datetime(content["End Time"])),
             calls |-> reads, out |-> <<>>]

-----------------------------------------------------------------------------
(* The four statistic functions: the tuple returned, the table afterwards
   and the lines printed *)

popular_times(d) ==
    LET raised == "Start Time" \notin DOMAIN d \/ Present(d["Start Time"]) = {}
    IN IF raised
       THEN [ret |-> <<None, None, None>>, df |-> d,
             out |-> <<Line("An error occurred while computing popular times:", Exc)>>]
       ELSE [ret |-> <<ModeFirst(dt_month(d["Start Time"])),
                       ModeFirst(dt_dayofweek(d["Start Time"])),
                       ModeFirst(dt_hour(d["Start Time"]))>>,
             df |-> d, out |-> <<>>]

\* The trip label built in place: ' to ' appended to the start station column
\* before the end station is added.
WithTrip_InPlace(d) ==
    SetColumn(SetColumn(d, "Trip", Concat(d["Start Station"], d["End Station"])),
              "Start Station",
              [i \in DOMAIN d["Start Station"] |->
                  IF d["Start Station"][i] = NaN THEN NaN
                  ELSE Str(d["Start Station"][i].s \o to_)])

\* df['Trip'] = df['Start Station'] + ' to ' + df['End Station']
WithTrip(d) == SetColumn(d, "Trip", Concat(d["Start Station"], d["End Station"]))

popular_stations(d) ==
    LET raisedBefore ==
            \/ "Start Station" \notin DOMAIN d
            \/ Present(d["Start Station"]) = {}
            \/ "End Station" \notin DOMAIN d
            \/ Present(d["End Station"]) = {}
            \/ ConcatFails(d["Start Station"], d["End Station"])
        raisedAfter == ~raisedBefore /\ Present(WithTrip(d)["Trip"]) = {}
        failure == <<Line("An error occurred while computing popular stations:", Exc)>>
    IN IF raisedBefore THEN [ret |-> <<None, None, None>>, df |-> d, out |-> failure]
       ELSE IF raisedAfter THEN [ret |-> <<None, None, None>>, df |-> WithTrip(d), out |-> failure]
       ELSE [ret |-> <<ModeFirst(d["Start Station"]),
                       ModeFirst(d["End Station"]),
                       ModeFirst(WithTrip(d)["Trip"])>>,
             df |-> WithTrip(d), out |-> <<>>]

trip_duration(d) ==
    IF "Trip Duration" \notin DOMAIN d
    THEN [ret |-> <<None, None>>, df |-> d,
          out |-> <<Line("An error occurred while computing trip duration:", Exc)>>]
    ELSE [ret |-> <<Sum(d["Trip Duration"]), Mean(d["Trip Duration"])>>, df |-> d, out |-> <<>>]

\* The rows without a numeric birth year dropped from the table in place.
WithNumericBirthYear_DropRows(d) ==
    LET by == to_numeric(d["Birth Year"])
        keep == {i \in DOMAIN by : by[i] # NaN}
        nth(j) == CHOOSE i \in keep : Cardinality({h \in keep : h < i}) = j - 1
    IN [c \in DOMAIN d |->
           [j \in 1..Cardinality(keep) |-> IF c = "Birth Year" THEN by[nth(j)] ELSE d[c][nth(j)]]]

\* df['Birth Year'] = pd.to_numeric(df['Birth Year'], errors='coerce')
WithNumericBirthYear(d) == SetColumn(d, "Birth Year", to_numeric(d["Birth Year"]))

\* gender_counts as an empty mapping when the column is not there.
GenderCounts_Empty(d) == IF "Gender" \in DOMAIN d THEN value_counts(d["Gender"]) ELSE Series(<<>>)

\* gender_counts: the counts when the column is there, None otherwise
GenderCounts(d) == IF "Gender" \in DOMAIN d THEN value_counts(d["Gender"]) ELSE None

user_info(d) ==
    LET failure == <<Line("An error occurred while computing user info:", Exc)>>
        nothing == <<None, None, None, None, None>>
    IN IF "User Type" \notin DOMAIN d THEN [ret |-> nothing, df |-> d, out |-> failure]
       ELSE IF "Birth Year" \in DOMAIN d
       THEN LET e == WithNumericBirthYear(d)
                by == e["Birth Year"]
            IN \* int(nan) raises, after the column was replaced
               IF Min(by) = NaN THEN [ret |-> nothing, df |-> e, out |-> failure]
               ELSE [ret |-> <<value_counts(d["User Type"]), GenderCounts(d),
                               int(Min(by)), int(Max(by)), int(ModeFirst(by))>>,
                     df |-> e, out |-> <<>>]
       ELSE [ret |-> <<value_counts(d["User Type"]), GenderCounts(d), None, None, None>>,
             df |-> d, out |-> <<>>]

-----------------------------------------------------------------------------
(* display_statistics *)

\* print(label, value), always
Always(label, val) == <<Line(label, val)>>
\* print(label, value) without the test for None.
IfNotNone_Unguarded(label, val) == <<Line(label, val)>>

\* if value is not None: print(label, value)
IfNotNone(label, val) == IF val # None THEN <<Line(label, val)>> ELSE <<>>
\* if gender_counts is not None: print("Counts of each gender:"); print(gender_counts)
GenderLines(val) ==
    IF val # None THEN <<Line("Counts of each gender:", NoArg), Line("", val)>> ELSE <<>>

display_statistics(d, c) ==
    LET pt == popular_times(d)
        ps == popular_stations(pt.df)
        td == trip_duration(ps.df)
        ui == user_info(td.df)
    IN [df |-> ui.df,
        stats |-> [popular_times |-> pt.ret, popular_stations |-> ps.ret,
                   trip_duration |-> td.ret, user_info |-> ui.ret],
        calls |-> <<Call("popular_times", NoArg), Call("popular_stations", NoArg),
                    Call("trip_duration", NoArg), Call("user_info", NoArg)>>,
        out |->
            <<Line("Statistics Computed", NoArg), Line("This is the information of {city}:", Str(c))>>
            \o pt.out
            \o <<Line("Popular Times of Travel:", NoArg)>>
            \o Always("Most common month:", pt.ret[1])
            \o Always("Most common day of week:", pt.ret[2])
            \o Always("Most common hour of day:", pt.ret[3])
            \o ps.out
            \o <<Line("Popular Stations and Trips:", NoArg)>>
            \o Always("Most common start station:", ps.ret[1])
            \o Always("Most common end station:", ps.ret[2])
            \o Always("Most common trip from start to end:", ps.ret[3])
            \o td.out
            \o <<Line("Trip Duration:", NoArg)>>
            \o Always("Total travel time:", td.ret[1])
            \o Always("Average travel time:", td.ret[2])
            \o ui.out
            \o <<Line("User Info:", NoArg), Line("Counts of each user type:", NoArg)>>
            \o Always("", ui.ret[1])
            \o GenderLines(ui.ret[2])
            \o IfNotNone("Earliest birth year:", ui.ret[3])
            \o IfNotNone("Most recent birth year:", ui.ret[4])
            \o IfNotNone("Most common birth year:", ui.ret[5])]

-----------------------------------------------------------------------------
(* The dataset files and console inputs the model draws from *)

Clark == <<"C", "l", "a", "r", "k">>
Lake == <<"L", "a", "k", "e">>
Trip1 ==
    ("Start Time" :> Str(<<"2", "0", "1", "7", "-", "0", "1", "-", "0", "2", " ", "0", "9">>))
    @@ ("End Time" :> Str(<<"2", "0", "1", "7", "-", "0", "1", "-", "0", "2", " ", "1", "0">>))
    @@ ("Start Station" :> Str(Clark)) @@ ("End Station" :> Str(Lake))
    @@ ("Trip Duration" :> PyInt(10))
Trip2 ==
    ("Start Time" :> Str(<<"2", "0", "1", "7", "-", "0", "6", "-", "2", "3", " ", "1", "7">>))
    @@ ("End Time" :> Str(<<"2", "0", "1", "7", "-", "0", "6", "-", "2", "3", " ", "1", "8">>))
    @@ ("Start Station" :> Str(Lake)) @@ ("End Station" :> Str(Clark))
    @@ ("Trip Duration" :> PyInt(25))
User1 ==
    ("User Type" :> Str(<<"S", "u", "b", "s", "c", "r", "i", "b", "e", "r">>))
    @@ ("Gender" :> Str(<<"M", "a", "l", "e">>))
User2 ==
    ("User Type" :> Str(<<"C", "u", "s", "t", "o", "m", "e", "r">>)) @@ ("Gender" :> NaN)
\* Birth year cells: 1980.0, 1990.5, the texts "1980" and "abc", and a missing cell.
BirthYears ==
    {Float(19800), Float(19905), Str(<<"1", "9", "8", "0">>), Str(<<"a", "b", "c">>), NaN}
\* The cell of a dataset's own column named Trip.
OwnTrip == ("Trip" :> Str(<<"r", "i", "d", "e">>))
\* A row whose start time is no date.
BadRow ==
    ("Start Time" :> BadTime) @@ Trip1 @@ User1 @@ ("Birth Year" :> NaN) @@ OwnTrip

\* The rows of the tables the statistic functions are checked on.
Rows ==
    {t @@ ("Birth Year" :> b) @@ OwnTrip : t \in {Trip1 @@ User1, Trip2 @@ User2},
                                            b \in BirthYears}
        \cup {BadRow}

AllColumns ==
    {"Start Time", "End Time", "Start Station", "End Station", "Trip Duration", "User Type",
     "Gender", "Birth Year"}
ColumnSets ==
    {AllColumns, AllColumns \ {"Gender"}, AllColumns \ {"Birth Year"},
     AllColumns \ {"Gender", "Birth Year"}, AllColumns \ {"User Type"},
     AllColumns \ {"End Station"}, AllColumns \ {"Trip Duration"},
     AllColumns \ {"Start Time"}, AllColumns \cup {"Trip"}}

\* pd.read_csv: the table of a file with these columns and rows.
Frame(cols, rows) == [c \in cols |-> [i \in 1..Len(rows) |-> rows[i][c]]]
RowSeqs == UNION {[1..n -> Rows] : n \in 0..MaxRows}
FileContents == {NoFile, Unreadable} \cup {Frame(cs, rs) : cs \in ColumnSets, rs \in RowSeqs}

\* The tables load_data can return.
LoadedTables == {load_data(chicago, f).df : f \in FileContents} \ {None}

\* The dataset files the driver finds: no file, an unreadable one, tables of
\* all columns with no row, one row, and rows whose birth years are numbers,
\* text, or all missing, and a table of every other column set.
SampleRow(t, u, b) == t @@ u @@ ("Birth Year" :> b) @@ OwnTrip
MixedRows ==
    <<SampleRow(Trip1, User1, Str(<<"1", "9", "8", "0">>)), SampleRow(Trip2, User2, Float(19905))>>
SampleRowSeqs ==
    {<<>>,
     <<SampleRow(Trip1, User1, Float(19800))>>,
     MixedRows,
     <<SampleRow(Trip2, User2, NaN), SampleRow(Trip1, User2, Str(<<"a", "b", "c">>))>>,
     <<SampleRow(Trip2, User1, Float(19800)), BadRow>>}
DriverFiles ==
    {NoFile, Unreadable} \cup {Frame(AllColumns, rs) : rs \in SampleRowSeqs}
        \cup {Frame(cs, MixedRows) : cs \in ColumnSets}

\* The lines typed at the prompts.
Inputs ==
    {chicago,
     <<"N", "e", "w", " ", "Y", "o", "r", "k", " ", "C", "i", "t", "y">>,
     <<"W", "A", "S", "H", "I", "N", "G", "T", "O", "N">>,
     <<"n", "e", "w", "-", "y", "o", "r", "k", "-", "c", "i", "t", "y">>,
     <<"c", "h", "i", "c", "a", "g", "o", " ">>,
     <<"a", "t", "l", "a", "n", "t", "i", "s">>,
     yes, no, <<"Y", "e", "s">>, <<"N", "O">>, <<"m", "a", "y", "b", "e">>, <<>>}

-----------------------------------------------------------------------------
(* main *)

\* Every line taken for a city.
ValidCity_Any(c) == TRUE
\* if city in CITY_DATA
ValidCity(c) == c \in DOMAIN CITY_DATA
\* The statistics never displayed.
ShouldDisplay_Never(d) == FALSE
\* if df is not None
ShouldDisplay(d) == d # None
\* if choice == 'no': return, after the inner loop
AfterLoop(ch) == IF ch = no THEN "Exited" ELSE "SelectingCity"
\* The inner loop leaving the program on every answer but 'yes'.
ContinueNext_ExitUnlessYes(ch) == IF ch = yes THEN "SelectingCity" ELSE "Exited"
\* The inner loop that does not break on 'yes'.
ContinueNext_NeverBreaks(ch) == IF ch = no THEN "Exited" ELSE "ConfirmingContinue"
\* One pass of the inner loop on the lower-cased answer.
ContinueNext(ch) ==
    IF ch = yes THEN AfterLoop(ch)
    ELSE IF ch = no THEN "Exited"
    ELSE "ConfirmingContinue"
ContinueOut(ch) ==
    IF ch = yes THEN <<>>
    ELSE IF ch = no THEN <<Line("Thank you for using the program. Goodbye!", NoArg)>>
    ELSE <<Line("Invalid choice. Please enter 'yes' or 'no'.", NoArg)>>

Init ==
    /\ state = "SelectingCity"
    /\ prompt = "none"
    /\ lastInput = <<>>
    /\ city = <<>>
    /\ choice = <<>>
    /\ df0 = None
    /\ df = None
    /\ stats = None
    /\ calls = <<>>
    /\ out = <<>>
    /\ lastCall = "none"
    /\ ret = <<>>

\* A line typed at the city prompt, up to the next prompt: c is the lower-cased
\* line, l what load_data did and r what display_statistics did.
CityInput(text) ==
    /\ state = "SelectingCity"
    /\ prompt' = "city"
    /\ lastInput' = text
    /\ \E c \in {lower(text)} :
          /\ city' = c
          /\ IF ValidCity(c)
             THEN \E content \in DriverFiles : \E l \in {load_data(c, content)} :
                     /\ df0' = l.df
                     /\ IF ShouldDisplay(l.df)
                        THEN \E r \in {display_statistics(l.df, c)} :
                                /\ df' = r.df
                                /\ stats' = r.stats
                                /\ calls' = <<Call("load_data", Str(c))>> \o l.calls
                                               \o <<Call("display_statistics", Str(c))>>
                                               \o r.calls
                                /\ out' = l.out \o r.out
                        ELSE /\ df' = l.df
                             /\ stats' = None
                             /\ calls' = <<Call("load_data", Str(c))>> \o l.calls
                             /\ out' = l.out
                     /\ state' = "ConfirmingContinue"
             ELSE /\ out' = <<Line("Invalid city name. Please try again.", NoArg)>>
                  /\ calls' = <<>>
                  /\ UNCHANGED <<state, df0, df, stats>>
    /\ UNCHANGED <<choice, lastCall, ret>>

\* A line typed at the continue prompt, up to the next prompt or the exit.
ContinueInput(text) ==
    /\ state = "ConfirmingContinue"
    /\ prompt' = "continue"
    /\ lastInput' = text
    /\ choice' = lower(text)
    /\ state' = ContinueNext(lower(text))
    /\ out' = ContinueOut(lower(text))
    /\ calls' = <<>>
    /\ UNCHANGED <<city, df0, df, stats, lastCall, ret>>

Next ==
    \/ \E text \in Inputs : CityInput(text)
    \/ \E text \in Inputs : ContinueInput(text)

Spec == Init /\ [][Next]_vars

-----------------------------------------------------------------------------
(* The statistic functions called on one loaded table in any order *)

InitStats ==
    /\ state = "Computing"
    /\ prompt = "none"
    /\ lastInput = <<>>
    /\ city = <<>>
    /\ choice = <<>>
    /\ df0 \in LoadedTables
    /\ df = df0
    /\ stats = None
    /\ calls = <<>>
    /\ out = <<>>
    /\ lastCall = "none"
    /\ ret = <<>>

Returned(fn, r) ==
    /\ lastCall' = fn
    /\ ret' = r.ret
    /\ df' = r.df
    /\ out' = r.out
    /\ UNCHANGED <<state, prompt, lastInput, city, choice, df0, stats, calls>>

CallPopularTimes == Returned("popular_times", popular_times(df))
CallPopularStations == Returned("popular_stations", popular_stations(df))
CallTripDuration == Returned("trip_duration", trip_duration(df))
CallUserInfo == Returned("user_info", user_info(df))

NextStats == CallPopularTimes \/ CallPopularStations \/ CallTripDuration \/ CallUserInfo

SpecStats == InitStats /\ [][NextStats]_vars

-----------------------------------------------------------------------------
(* The driver's claims, checked under Spec *)

NewYorkHyphenated == <<"n", "e", "w", "-", "y", "o", "r", "k", "-", "c", "i", "t", "y">>
InvalidCityLine == Line("Invalid city name. Please try again.", NoArg)
InvalidChoiceLine == Line("Invalid choice. Please enter 'yes' or 'no'.", NoArg)
Called(fn) == {i \in 1..Len(calls) : calls[i].fn = fn}
Printed(label) == \E i \in 1..Len(out) : out[i].label = label
PrintedWith(label, val) == \E i \in 1..Len(out) : out[i] = Line(label, val)
\* The last line was typed at the city prompt, or at the continue prompt.
AtCity == prompt = "city"
AtContinue == prompt = "continue"

\* C1: main has returned only as the immediate result of the answer "no"
\* (after lower-casing) typed at the continue prompt: never on a line typed at
\* the city prompt, and never while a load or a statistic was failing.
C1_ExitOnlyByNo ==
    state = "Exited" => AtContinue /\ lower(lastInput) = no /\ choice = no /\ calls = <<>>
\* main returned on "NO", after a load that had failed.
C1_Witness == state = "Exited" /\ lastInput = <<"N", "O">> /\ df0 = None /\ city = chicago

\* C2: a line typed at the city prompt that is, lower-cased, no key of
\* CITY_DATA is reported as invalid, leaves main at the city prompt, and
\* calls neither load_data nor display_statistics.
C2_InvalidCityStays ==
    AtCity /\ lower(lastInput) \notin DOMAIN CITY_DATA
        => /\ state = "SelectingCity"
           /\ out = <<InvalidCityLine>>
           /\ Called("load_data") = {} /\ Called("display_statistics") = {}
           /\ calls = <<>>
C2_Witness ==
    /\ AtCity /\ lastInput = <<"a", "t", "l", "a", "n", "t", "i", "s">>
    /\ state = "SelectingCity" /\ out = <<InvalidCityLine>>

\* C3: a valid city typed at the city prompt calls load_data exactly once and
\* first, calls display_statistics (once, after load_data) exactly when
\* load_data returned a table, and leaves main at the continue prompt either
\* way.
C3_LoadThenReport ==
    AtCity /\ lower(lastInput) \in DOMAIN CITY_DATA
        => /\ state = "ConfirmingContinue"
           /\ Called("load_data") = {1}
           /\ Cardinality(Called("display_statistics")) = (IF df0 # None THEN 1 ELSE 0)
           /\ \A i \in Called("display_statistics") : i > 1
           /\ \A i \in Called("popular_times") \cup Called("popular_stations")
                     \cup Called("trip_duration") \cup Called("user_info") :
                 \E j \in Called("display_statistics") : j < i
           /\ (df0 = None => Len(out) = 1 /\ stats = None)
\* A load that found no file went on to the continue prompt without a report.
C3_Witness ==
    /\ AtCity /\ state = "ConfirmingContinue" /\ df0 = None
    /\ Printed("Error: File for {city} not found.")
    /\ Called("load_data") = {1}
\* A load that returned a table was followed by the report.
C3_WitnessReport ==
    /\ AtCity /\ state = "ConfirmingContinue" /\ df0 # None
    /\ Called("display_statistics") # {} /\ Printed("Statistics Computed")

\* C4: at the continue prompt "yes" in any casing leads back to the city
\* prompt, an answer that is neither "yes" nor "no" is reported as invalid and
\* leaves main at the continue prompt, and neither calls load_data or
\* display_statistics.
C4_ContinueAnswers ==
    AtContinue
        => /\ (lower(lastInput) = yes => state = "SelectingCity" /\ out = <<>>)
           /\ (lower(lastInput) \notin {yes, no}
                  => state = "ConfirmingContinue" /\ out = <<InvalidChoiceLine>>)
           /\ calls = <<>>
C4_Witness == AtContinue /\ lastInput = <<"Y", "e", "s">> /\ state = "SelectingCity"
C4_WitnessInvalid ==
    AtContinue /\ lastInput = <<"m", "a", "y", "b", "e">> /\ state = "ConfirmingContinue"

\* A line typed at the city prompt was taken for a city: load_data was called.
Accepted == AtCity /\ Called("load_data") # {}
\* C5 as claimed: the lines accepted as a city are those that are, lower-cased,
\* chicago, new-york-city or washington.
C5_Original ==
    AtCity => (Accepted <=> lower(lastInput) \in {chicago, NewYorkHyphenated, washington})
\* C5 as amended: the lines accepted as a city are those that are, lower-cased,
\* "chicago", "new york city" (with spaces) or "washington"; an accepted line
\* makes load_data read the dataset location of that city.
C5_Amended ==
    AtCity
        => /\ Accepted <=> lower(lastInput) \in {chicago, new_york_city, washington}
           /\ Accepted =>
                 /\ calls[1] = Call("load_data", Str(lower(lastInput)))
                 /\ calls[2] = Call("read_csv", Path(
                        IF lower(lastInput) = chicago THEN "chicago.csv"
                        ELSE IF lower(lastInput) = new_york_city THEN "new_york_city.csv"
                        ELSE "washington.csv"))
\* "New York City" typed in mixed case was accepted.
C5_Witness ==
    /\ Accepted
    /\ lastInput = <<"N", "e", "w", " ", "Y", "o", "r", "k", " ", "C", "i", "t", "y">>
    /\ calls[2] = Call("read_csv", Path("new_york_city.csv"))

\* display_statistics ran on the last line.
Displayed == AtCity /\ Called("display_statistics") # {} /\ stats # None
Headers ==
    <<"Popular Times of Travel:", "Popular Stations and Trips:", "Trip Duration:", "User Info:">>
HeaderAt(h) == CHOOSE i \in 1..Len(out) : out[i].label = h
\* The result fields display_statistics prints under a label of their own.
LabelledFields ==
    <<<<"Most common month:", stats.popular_times[1]>>,
      <<"Most common day of week:", stats.popular_times[2]>>,
      <<"Most common hour of day:", stats.popular_times[3]>>,
      <<"Most common start station:", stats.popular_stations[1]>>,
      <<"Most common end station:", stats.popular_stations[2]>>,
      <<"Most common trip from start to end:", stats.popular_stations[3]>>,
      <<"Total travel time:", stats.trip_duration[1]>>,
      <<"Average travel time:", stats.trip_duration[2]>>,
      <<"Counts of each user type:", stats.user_info[1]>>,
      <<"Counts of each gender:", stats.user_info[2]>>,
      <<"Earliest birth year:", stats.user_info[3]>>,
      <<"Most recent birth year:", stats.user_info[4]>>,
      <<"Most common birth year:", stats.user_info[5]>>>>
AllHeadersInOrder ==
    /\ \A h \in 1..4 : Printed(Headers[h])
    /\ \A h \in 1..3 : HeaderAt(Headers[h]) < HeaderAt(Headers[h + 1])
\* C6 as claimed: the report prints the four headers, and of every result field
\* prints the label exactly when the value is not None.
C6_Original ==
    Displayed
        => /\ AllHeadersInOrder
           /\ \A f \in 1..Len(LabelledFields) :
                 Printed(LabelledFields[f][1]) <=> LabelledFields[f][2] # None
\* C6 as amended: the report always ends and prints the four headers in their
\* order; it leaves out a field that is None only for the gender counts and
\* the three birth years; every field of popular times, popular stations and
\* trip duration, and the user type counts, is printed whatever its value, a
\* None as "None".
C6_Amended ==
    Displayed
        => /\ state = "ConfirmingContinue"
           /\ AllHeadersInOrder
           /\ \A f \in 1..8 : PrintedWith(LabelledFields[f][1], LabelledFields[f][2])
           /\ Printed("Counts of each user type:") /\ PrintedWith("", stats.user_info[1])
           /\ Printed("Counts of each gender:") <=> stats.user_info[2] # None
           /\ stats.user_info[2] # None => PrintedWith("", stats.user_info[2])
           /\ \A f \in 11..13 :
                 IF LabelledFields[f][2] # None
                 THEN PrintedWith(LabelledFields[f][1], LabelledFields[f][2])
                 ELSE ~Printed(LabelledFields[f][1])
\* The report of a table without rows: every statistic came back None.
C6_Witness ==
    /\ Displayed
    /\ stats.popular_times = <<None, None, None>>
    /\ stats.popular_stations = <<None, None, None>>
    /\ stats.user_info = <<None, None, None, None, None>>
    /\ PrintedWith("Most common month:", None)
    /\ ~Printed("Earliest birth year:")

-----------------------------------------------------------------------------
(* The claims on the statistic functions, checked under SpecStats *)

HasColumn(c) == c \in DOMAIN df0
\* The numeric entries of the birth year column as loaded, in tenths: the
\* numbers, and the text that spells a number.
NumericAt(i) ==
    LET cell == df0["Birth Year"][i]
    IN IF cell.k = "float" THEN {cell.t}
       ELSE IF cell.k = "str" /\ ParseNumber(cell.s) # NaN THEN {ParseNumber(cell.s).t}
       ELSE {}
Numeric == UNION {NumericAt(i) : i \in DOMAIN df0["Birth Year"]}
Occurrences(t) == Cardinality({i \in DOMAIN df0["Birth Year"] : t \in NumericAt(i)})
Least == CHOOSE t \in Numeric : \A u \in Numeric : t <= u
Greatest == CHOOSE t \in Numeric : \A u \in Numeric : t >= u
\* The most frequent numeric entry, the smallest of them on a tie.
MostFrequent ==
    CHOOSE t \in Numeric :
        \A u \in Numeric :
            Occurrences(u) < Occurrences(t) \/ (Occurrences(u) = Occurrences(t) /\ t <= u)
\* The table as loaded has a row.
HasRows == \E c \in DOMAIN df0 : df0[c] # <<>>
BirthYearsNone == ret[3] = None /\ ret[4] = None /\ ret[5] = None

C7_WitnessMissing ==
    /\ lastCall = "user_info" /\ HasColumn("Birth Year")
    /\ \E i \in DOMAIN df0["Birth Year"] : df0["Birth Year"][i] = NaN
    /\ ret[3] = PyInt(1980) /\ ret[4] = PyInt(1980)

\* What user_info owes on the optional columns: None for the gender counts
\* without a gender column, None for the birth years without a birth year
\* column, and still the user type counts and the values of the optional
\* column that is there.
OptionalColumnsTolerated ==
    /\ ~HasColumn("Gender") => ret[2] = None
    /\ ~HasColumn("Birth Year") => BirthYearsNone
    /\ ~HasColumn("Gender") \/ ~HasColumn("Birth Year")
          => /\ ret[1] = value_counts(df0["User Type"])
             /\ HasColumn("Gender") => ret[2] = value_counts(df0["Gender"])
             /\ HasColumn("Birth Year") => ret[3] # None /\ ret[4] # None /\ ret[5] # None
C8_WitnessBirthYear ==
    /\ lastCall = "user_info" /\ HasColumn("User Type")
    /\ HasColumn("Gender") /\ ~HasColumn("Birth Year")
    /\ ret[1] # None /\ ret[2] # None /\ ret[2] # Series(<<>>) /\ BirthYearsNone

\* C9 as claimed: whatever was called, every column that was loaded holds what
\* was loaded, and the only columns added are derived ones (Trip).
C9_Original ==
    /\ \A c \in DOMAIN df0 : c \in DOMAIN df /\ df[c] = df0[c]
    /\ DOMAIN df \subseteq DOMAIN df0 \cup {"Trip"}
\* A cell of the birth year column is as loaded or as to_numeric coerces it.
Coerced(cell) ==
    IF cell.k = "float" THEN cell
    ELSE IF cell.k = "str" THEN ParseNumber(cell.s)
    ELSE NaN
\* C9 as amended: whatever was called, every loaded column other than Birth
\* Year and Trip holds what was loaded and no column is lost; the Birth Year
\* column is as loaded or, once user_info ran, coerced to numbers (a number
\* stays, text spelling a number becomes it, anything else becomes missing);
\* the only column added or overwritten is Trip, the trip labels, once
\* popular_stations got as far as computing them.
C9_Amended ==
    /\ \A c \in DOMAIN df0 : c \in DOMAIN df
    /\ \A c \in DOMAIN df0 \ {"Birth Year", "Trip"} : df[c] = df0[c]
    /\ DOMAIN df \subseteq DOMAIN df0 \cup {"Trip"}
    /\ HasColumn("Birth Year")
          => \/ df["Birth Year"] = df0["Birth Year"]
             \/ df["Birth Year"]
                   = [i \in DOMAIN df0["Birth Year"] |-> Coerced(df0["Birth Year"][i])]
    /\ "Trip" \in DOMAIN df
          => \/ HasColumn("Trip") /\ df["Trip"] = df0["Trip"]
             \/ df["Trip"] = Concat(df0["Start Station"], df0["End Station"])
\* Both changes made: the birth years coerced and the Trip column added.
C9_Witness ==
    /\ lastCall # "none"
    /\ HasColumn("Birth Year") /\ df["Birth Year"] # df0["Birth Year"]
    /\ "Trip" \in DOMAIN df /\ ~HasColumn("Trip")

\* C10: whatever was called before on the table, and in whatever order, each
\* of the four functions returns on the table as it is now the tuple it
\* returns on the table as loaded, and the tuple last returned is that one.
C10_OrderIrrelevant ==
    /\ popular_times(df).ret = popular_times(df0).ret
    /\ popular_stations(df).ret = popular_stations(df0).ret
    /\ trip_duration(df).ret = trip_duration(df0).ret
    /\ user_info(df).ret = user_info(df0).ret
    /\ lastCall = "popular_times" => ret = popular_times(df0).ret
    /\ lastCall = "popular_stations" => ret = popular_stations(df0).ret
    /\ lastCall = "trip_duration" => ret = trip_duration(df0).ret
    /\ lastCall = "user_info" => ret = user_info(df0).ret
\* user_info returned on a table that popular_stations and an earlier user_info
\* had changed.
C10_Witness ==
    /\ lastCall = "user_info"
    /\ "Trip" \in DOMAIN df /\ ~HasColumn("Trip")
    /\ HasColumn("Birth Year") /\ df["Birth Year"] # df0["Birth Year"]
    /\ user_info(df).df = df
    /\ ret[3] # None

====
